---- MODULE Spec2Model ----
(***************************************************************************)
(* A model of aw-client-rust (src/aw-client-rust/src/lib.rs): the AwClient *)
(* value built by AwClient::new and the async operations that turn typed   *)
(* calls into HTTP requests and HTTP responses into typed results.         *)
(*                                                                         *)
(* Text that ends up in a URL (hosts, bucket ids, timestamps, numbers) is  *)
(* a sequence of one-character strings, so that formatting, parsing and    *)
(* percent-encoding are computed character by character.                   *)
(***************************************************************************)
EXTENDS Integers, Sequences, FiniteSets

VARIABLES ctor, client, tasks, store

vars == <<ctor, client, tasks, store>>

(***************************************************************************)
(* Bounds of the model.                                                    *)
(***************************************************************************)
MaxHostLen == 2
MaxBodyLen == 2
MaxEvents == 2
NumTasks == 2

(***************************************************************************)
(* Option<T>.                                                              *)
(***************************************************************************)
None == [some |-> FALSE]
Some(v) == [some |-> TRUE, v |-> v]

(***************************************************************************)
(* Characters and text.                                                    *)
(***************************************************************************)
Digits == <<"0", "1", "2", "3", "4", "5", "6", "7", "8", "9">>
LowerLetters == <<"a", "b", "c", "d", "e", "f", "g", "h", "i", "j", "k", "l", "m",
                  "n", "o", "p", "q", "r", "s", "t", "u", "v", "w", "x", "y", "z">>
UpperLetters == <<"A", "B", "C", "D", "E", "F", "G", "H", "I", "J", "K", "L", "M",
                  "N", "O", "P", "Q", "R", "S", "T", "U", "V", "W", "X", "Y", "Z">>

Range(s) == {s[i] : i \in DOMAIN s}
IsDigit(c) == c \in Range(Digits)
IsLower(c) == c \in Range(LowerLetters)
IsUpper(c) == c \in Range(UpperLetters)
IsLetter(c) == IsLower(c) \/ IsUpper(c)
IndexOf(c, s) == CHOOSE i \in DOMAIN s : s[i] = c
DigitValue(c) == IndexOf(c, Digits) - 1
ToLower(c) == IF IsUpper(c) THEN LowerLetters[IndexOf(c, UpperLetters)] ELSE c
LowerCase(s) == [i \in DOMAIN s |-> ToLower(s[i])]

\* Position of the first character of s that is in set cs, or Len(s) + 1.
FirstIn(s, cs) ==
    IF \E i \in DOMAIN s : s[i] \in cs
    THEN CHOOSE i \in DOMAIN s : s[i] \in cs /\ \A j \in 1..(i - 1) : s[j] \notin cs
    ELSE Len(s) + 1

Drop(s, n) == SubSeq(s, n + 1, Len(s))
Take(s, n) == SubSeq(s, 1, n)
StartsWith(s, p) == Len(s) >= Len(p) /\ Take(s, Len(p)) = p
EndsWith(s, p) == Len(s) >= Len(p) /\ Drop(s, Len(s) - Len(p)) = p

\* All texts over alphabet cs of length at most n.
TextsUpTo(cs, n) == UNION {[1..k -> cs] : k \in 0..n}

\* Display of an unsigned integer: base 10, no sign, no leading zeros.
RECURSIVE to_string(_)
to_string(n) == IF n < 10 THEN <<Digits[n + 1]>>
               ELSE to_string(n \div 10) \o <<Digits[(n % 10) + 1]>>

\* The value of a non-empty text of digits.
RECURSIVE DigitsValue(_)
DigitsValue(s) == IF Len(s) = 0 THEN 0
                  ELSE 10 * DigitsValue(Take(s, Len(s) - 1)) + DigitValue(s[Len(s)])

\* Display of a number zero-padded to w digits.
RECURSIVE Pad(_, _)
Pad(n, w) == IF w = 0 THEN <<>> ELSE Pad(n \div 10, w - 1) \o <<Digits[(n % 10) + 1]>>

(***************************************************************************)
(* Url: the parts of a parsed http URL, Url::parse and Display for Url.    *)
(* The alphabets of the model hold no digit in a host (a host ending in a  *)
(* number is an IPv4 address to the parser) and only characters that the   *)
(* path and query encode sets leave alone.                                 *)
(***************************************************************************)
T_scheme == <<"h", "t", "t", "p", ":", "/", "/">>
DefaultPort == 80
MaxPort == 65535

HostCharOk(c) == IsLetter(c) \/ IsDigit(c) \/ c \in {"-", "."}

UrlParse(s) ==
    IF ~StartsWith(s, T_scheme) THEN [ok |-> FALSE, err |-> "RelativeUrlWithoutBase"]
    ELSE
    LET rest == Drop(s, Len(T_scheme))
        aend == FirstIn(rest, {"/", "?", "#"})
        authority == Take(rest, aend - 1)
        tail == Drop(rest, aend - 1)
        colon == FirstIn(authority, {":"})
        host == Take(authority, colon - 1)
        porttext == Drop(authority, colon)
        qpos == FirstIn(tail, {"?"})
        rawpath == Take(tail, qpos - 1)
        path == IF Len(rawpath) = 0 THEN <<"/">> ELSE rawpath
        query == IF qpos > Len(tail) THEN None ELSE Some(Drop(tail, qpos))
    IN  IF Len(host) = 0 THEN [ok |-> FALSE, err |-> "EmptyHost"]
        ELSE IF \E i \in DOMAIN host : ~HostCharOk(host[i])
        THEN [ok |-> FALSE, err |-> "InvalidDomainCharacter"]
        ELSE IF \E i \in DOMAIN porttext : ~IsDigit(porttext[i])
        THEN [ok |-> FALSE, err |-> "InvalidPort"]
        ELSE IF Len(porttext) > 5 \/ DigitsValue(porttext) > MaxPort
        THEN [ok |-> FALSE, err |-> "InvalidPort"]
        ELSE [ok |-> TRUE,
              url |-> [host |-> LowerCase(host),
                       port |-> IF Len(porttext) = 0 \/ DigitsValue(porttext) = DefaultPort
                                THEN None ELSE Some(DigitsValue(porttext)),
                       path |-> path,
                       query |-> query]]

\* Display for Url: the serialization.
UrlDisplay(u) ==
    T_scheme \o u.host
    \o (IF u.port.some THEN <<":">> \o to_string(u.port.v) ELSE <<>>)
    \o u.path
    \o (IF u.query.some THEN <<"?">> \o u.query.v ELSE <<>>)

(***************************************************************************)
(* AwClient::new.                                                          *)
(***************************************************************************)
TimeoutSecs == 120

\* get_hostname(): the machine's host name, read once by new.
get_hostname == "machine"

NoClient == [built |-> FALSE]

\* A new that falls back to localhost when the host and port form no URL.
new_lenient(host, port, name) ==
    LET parsed == UrlParse(T_scheme \o host \o <<":">> \o to_string(port))
        fallback == UrlParse(T_scheme \o <<"l", "o", "c", "a", "l", "h", "o", "s", "t">>
                             \o <<":">> \o to_string(port))
    IN  [ok |-> TRUE,
         client |-> [built |-> TRUE,
                     timeout |-> TimeoutSecs,
                     baseurl |-> IF parsed.ok THEN parsed.url ELSE fallback.url,
                     name |-> name,
                     hostname |-> get_hostname]]

new(host, port, name) ==
    LET parsed == UrlParse(T_scheme \o host \o <<":">> \o to_string(port))
    IN  IF ~parsed.ok THEN [ok |-> FALSE, err |-> parsed.err]
        ELSE [ok |-> TRUE,
              client |-> [built |-> TRUE,
                          timeout |-> TimeoutSecs,
                          baseurl |-> parsed.url,
                          name |-> name,
                          hostname |-> get_hostname]]

(***************************************************************************)
(* chrono: DateTime<Utc> and DateTime::to_rfc3339.  A time is its calendar *)
(* fields; nano is the nanosecond of the second.                           *)
(***************************************************************************)
T_utc == <<"+", "0", "0", ":", "0", "0">>
Million == 1000000
Thousand == 1000

\* SecondsFormat::AutoSi: no fraction for a whole second, else 3, 6 or 9 digits.
AutoSi(nano) ==
    IF nano = 0 THEN <<>>
    ELSE IF nano % Million = 0 THEN <<".">> \o Pad(nano \div Million, 3)
    ELSE IF nano % Thousand = 0 THEN <<".">> \o Pad(nano \div Thousand, 6)
    ELSE <<".">> \o Pad(nano, 9)

to_rfc3339(d) ==
    Pad(d.year, 4) \o <<"-">> \o Pad(d.month, 2) \o <<"-">> \o Pad(d.day, 2)
    \o <<"T">> \o Pad(d.hour, 2) \o <<":">> \o Pad(d.minute, 2) \o <<":">> \o Pad(d.second, 2)
    \o AutoSi(d.nano) \o T_utc

(***************************************************************************)
(* url: form_urlencoded::byte_serialize and query_pairs_mut().append_pair. *)
(***************************************************************************)
HexDigits == <<"0", "1", "2", "3", "4", "5", "6", "7", "8", "9", "A", "B", "C", "D", "E", "F">>

\* The ASCII codes of the characters of the model that are not letters or digits.
Punctuation == <<" ", "#", "%", "&", "*", "+", "-", ".", "/", ":", "=", "?", "_">>
PunctuationCode == <<32, 35, 37, 38, 42, 43, 45, 46, 47, 58, 61, 63, 95>>
AsciiCode(c) == PunctuationCode[IndexOf(c, Punctuation)]

FormSafe(c) == IsLetter(c) \/ IsDigit(c) \/ c \in {"*", "-", ".", "_"}

byte_serialize_char(c) ==
    IF FormSafe(c) THEN <<c>>
    ELSE IF c = " " THEN <<"+">>
    ELSE <<"%", HexDigits[(AsciiCode(c) \div 16) + 1], HexDigits[(AsciiCode(c) % 16) + 1]>>

RECURSIVE byte_serialize(_)
byte_serialize(s) ==
    IF Len(s) = 0 THEN <<>> ELSE byte_serialize_char(Head(s)) \o byte_serialize(Tail(s))

append_pair(url, name, value) ==
    [url EXCEPT !.query =
        Some((IF url.query.some /\ Len(url.query.v) > 0 THEN url.query.v \o <<"&">> ELSE <<>>)
             \o byte_serialize(name) \o <<"=">> \o byte_serialize(value))]

(***************************************************************************)
(* Display of the numbers that appear in URLs.                             *)
(***************************************************************************)
\* Display for i64.
i64_to_string(n) == IF n < 0 THEN <<"-">> \o to_string(0 - n) ELSE to_string(n)

\* Display for f64, for a value given in tenths: 10 is "1", 5 is "0.5".
f64_to_string(tenths) ==
    to_string(tenths \div 10)
    \o (IF tenths % 10 = 0 THEN <<>> ELSE <<".", Digits[(tenths % 10) + 1]>>)

(***************************************************************************)
(* aw_models: Bucket, BucketMetadata, Event and their JSON forms.  A JSON  *)
(* object is a record of its keys, a JSON array a sequence, a map a set of *)
(* <<key, value>> pairs, null is None.                                     *)
(***************************************************************************)
EmptyMap == {}
BucketMetadataDefault == [start |-> None, end |-> None]

BucketToJson(b) ==
    LET base == [id |-> b.id, type |-> b.type, client |-> b.client,
                 hostname |-> b.hostname, created |-> b.created, data |-> b.data,
                 metadata |-> b.metadata, last_updated |-> b.last_updated]
    IN  IF b.events.some
        THEN [k \in DOMAIN base \cup {"events"} |->
                 IF k = "events" THEN b.events.v ELSE base[k]]
        ELSE base

JsonIsBucket(j) == {"type", "client", "hostname"} \subseteq DOMAIN j

BucketFromJson(j) ==
    [bid |-> None,
     id |-> IF "id" \in DOMAIN j THEN j.id ELSE <<>>,
     type |-> j.type,
     client |-> j.client,
     hostname |-> j.hostname,
     created |-> IF "created" \in DOMAIN j THEN j.created ELSE None,
     data |-> IF "data" \in DOMAIN j THEN j.data ELSE EmptyMap,
     metadata |-> BucketMetadataDefault,
     events |-> IF "events" \in DOMAIN j THEN Some(j.events) ELSE None,
     last_updated |-> IF "last_updated" \in DOMAIN j THEN j.last_updated ELSE None]

EventToJson(e) ==
    [id |-> e.id, timestamp |-> to_rfc3339(e.timestamp), duration |-> e.duration,
     data |-> e.data]

\* serde's Vec<T>: a JSON array of the elements' JSON forms, in order.
VecToJson(events) == [i \in DOMAIN events |-> EventToJson(events[i])]

(***************************************************************************)
(* Requests.  A request is what reqwest's RequestBuilder sends: method,    *)
(* the URL (a String goes through Url::parse, a Url is taken as it is) and *)
(* the body.                                                               *)
(***************************************************************************)
T_api_buckets == <<"/", "a", "p", "i", "/", "0", "/", "b", "u", "c", "k", "e", "t", "s", "/">>
T_api_info == <<"/", "a", "p", "i", "/", "0", "/", "i", "n", "f", "o">>
T_events == <<"/", "e", "v", "e", "n", "t", "s">>
T_events_slash == <<"/", "e", "v", "e", "n", "t", "s", "/">>
T_events_count == <<"/", "e", "v", "e", "n", "t", "s", "/", "c", "o", "u", "n", "t">>
T_heartbeat == <<"/", "h", "e", "a", "r", "t", "b", "e", "a", "t", "?",
                 "p", "u", "l", "s", "e", "t", "i", "m", "e", "=">>
T_start == <<"s", "t", "a", "r", "t">>
T_end == <<"e", "n", "d">>
T_limit == <<"l", "i", "m", "i", "t">>

NoBody == [kind |-> "none"]
JsonBody(v) == [kind |-> "json", json |-> v]
TextBody(s) == [kind |-> "text", text |-> s]

\* client.get(url) / post(url) / delete(url) with a String: IntoUrl parses it.
RequestOfString(method, text, body) ==
    LET parsed == UrlParse(text)
    IN  IF parsed.ok
        THEN [built |-> TRUE, method |-> method, url |-> UrlDisplay(parsed.url), body |-> body]
        ELSE [built |-> FALSE, method |-> method, url |-> text, body |-> body]

\* client.get(url) with a Url.
RequestOfUrl(method, url, body) ==
    [built |-> TRUE, method |-> method, url |-> UrlDisplay(url), body |-> body]

get_bucket_request(self, bucketname) ==
    RequestOfString("GET", UrlDisplay(self.baseurl) \o T_api_buckets \o bucketname, NoBody)

get_buckets_request(self) ==
    RequestOfString("GET", UrlDisplay(self.baseurl) \o T_api_buckets, NoBody)

create_bucket_request(self, bucket) ==
    RequestOfString("POST", UrlDisplay(self.baseurl) \o T_api_buckets \o bucket.id,
                    JsonBody(BucketToJson(bucket)))

\* A Bucket with the client's name and host name in each other's place.
simple_bucket_swapped(self, bucketname, buckettype) ==
    [bid |-> None, id |-> bucketname, client |-> self.hostname, type |-> buckettype,
     hostname |-> self.name, data |-> EmptyMap, metadata |-> BucketMetadataDefault,
     events |-> None, created |-> None, last_updated |-> None]

\* The Bucket that create_bucket_simple builds.
simple_bucket(self, bucketname, buckettype) ==
    [bid |-> None, id |-> bucketname, client |-> self.name, type |-> buckettype,
     hostname |-> self.hostname, data |-> EmptyMap, metadata |-> BucketMetadataDefault,
     events |-> None, created |-> None, last_updated |-> None]

create_bucket_simple_request(self, bucketname, buckettype) ==
    create_bucket_request(self, simple_bucket(self, bucketname, buckettype))

delete_bucket_request(self, bucketname) ==
    RequestOfString("DELETE", UrlDisplay(self.baseurl) \o T_api_buckets \o bucketname, NoBody)

\* A get_events that appends limit before start and end.
get_events_url_reordered(self, bucketname, start, stop, limit) ==
    LET u0 == UrlParse(UrlDisplay(self.baseurl) \o T_api_buckets \o bucketname \o T_events).url
        u1 == IF limit.some THEN append_pair(u0, T_limit, to_string(limit.v)) ELSE u0
        u2 == IF start.some THEN append_pair(u1, T_start, to_rfc3339(start.v)) ELSE u1
        u3 == IF stop.some THEN append_pair(u2, T_end, to_rfc3339(stop.v)) ELSE u2
    IN  u3

\* The three "if let Some(s)" blocks of get_events, in their order.
get_events_url(self, bucketname, start, stop, limit) ==
    LET u0 == UrlParse(UrlDisplay(self.baseurl) \o T_api_buckets \o bucketname \o T_events).url
        u1 == IF start.some THEN append_pair(u0, T_start, to_rfc3339(start.v)) ELSE u0
        u2 == IF stop.some THEN append_pair(u1, T_end, to_rfc3339(stop.v)) ELSE u1
        u3 == IF limit.some THEN append_pair(u2, T_limit, to_string(limit.v)) ELSE u2
    IN  u3

get_events_request(self, bucketname, start, stop, limit) ==
    RequestOfUrl("GET", get_events_url(self, bucketname, start, stop, limit), NoBody)

\* An insert_event that posts to the bucket's own URL, as create_bucket does.
insert_event_request_to_bucket(self, bucketname, event) ==
    LET eventlist == <<event>>
    IN  RequestOfString("POST", UrlDisplay(self.baseurl) \o T_api_buckets \o bucketname,
                        JsonBody(VecToJson(eventlist)))

insert_event_request(self, bucketname, event) ==
    LET eventlist == <<event>>
    IN  RequestOfString("POST",
                        UrlDisplay(self.baseurl) \o T_api_buckets \o bucketname \o T_events,
                        JsonBody(VecToJson(eventlist)))

insert_events_request(self, bucketname, events) ==
    RequestOfString("POST", UrlDisplay(self.baseurl) \o T_api_buckets \o bucketname \o T_events,
                    JsonBody(VecToJson(events)))

heartbeat_request(self, bucketname, event, pulsetime) ==
    RequestOfString("POST",
                    UrlDisplay(self.baseurl) \o T_api_buckets \o bucketname \o T_heartbeat
                    \o f64_to_string(pulsetime),
                    JsonBody(EventToJson(event)))

delete_event_request(self, bucketname, event_id) ==
    RequestOfString("DELETE",
                    UrlDisplay(self.baseurl) \o T_api_buckets \o bucketname \o T_events_slash
                    \o i64_to_string(event_id),
                    NoBody)

get_event_count_request(self, bucketname) ==
    RequestOfString("GET",
                    UrlDisplay(self.baseurl) \o T_api_buckets \o bucketname \o T_events_count,
                    NoBody)

get_info_request(self) ==
    RequestOfString("GET", UrlDisplay(self.baseurl) \o T_api_info, NoBody)

(***************************************************************************)
(* Responses and results.  A call ends with a returned Result or, for a    *)
(* panic, with the task unwinding and nothing returned.                    *)
(***************************************************************************)
TransportFailure == [kind |-> "transport"]
HttpResponse(status, body) == [kind |-> "http", status |-> status, body |-> body]

\* A body whose bytes cannot be read to the end (the connection breaks).
BrokenBody == [kind |-> "broken"]

Ok(v) == [ok |-> TRUE, value |-> v]
Err(e) == [ok |-> FALSE, err |-> e]
ErrStatus(status) == [ok |-> FALSE, err |-> "status", status |-> status]
Unit == "()"

Returned(result, decoded) == [pc |-> "done", result |-> result, decoded |-> decoded]
Panicked(decoded) == [pc |-> "panicked", decoded |-> decoded]

\* StatusCode::is_client_error / is_server_error / is_success.
is_client_error(status) == status >= 400 /\ status < 500
is_server_error(status) == status >= 500 /\ status < 600
is_success(status) == status >= 200 /\ status < 300

\* Response::error_for_status.
error_for_status(resp) ==
    IF is_client_error(resp.status) \/ is_server_error(resp.status)
    THEN ErrStatus(resp.status)
    ELSE Ok(resp)

\* Response::json::<Bucket>.
json_bucket(body) ==
    IF body.kind = "broken" THEN Err("transport")
    ELSE IF body.kind = "json" /\ JsonIsBucket(body.json) THEN Ok(BucketFromJson(body.json))
    ELSE Err("decode")

\* Response::json::<HashMap<String, Bucket>>: the body is a map of bucket objects.
json_bucket_map(body) ==
    IF body.kind = "broken" THEN Err("transport")
    ELSE IF body.kind = "json" /\ \A kv \in body.json : JsonIsBucket(kv[2])
    THEN Ok({<<kv[1], BucketFromJson(kv[2])>> : kv \in body.json})
    ELSE Err("decode")

JsonIsEvent(j) == {"timestamp", "duration", "data"} \subseteq DOMAIN j

\* Response::json::<Vec<Event>>: the body is an array of event objects, kept as sent.
json_events(body) ==
    IF body.kind = "broken" THEN Err("transport")
    ELSE IF body.kind = "json" /\ \A i \in DOMAIN body.json : JsonIsEvent(body.json[i])
    THEN Ok(body.json)
    ELSE Err("decode")

JsonIsInfo(j) == {"hostname", "version", "testing", "device_id"} \subseteq DOMAIN j

\* Response::json::<aw_models::Info>.
json_info(body) ==
    IF body.kind = "broken" THEN Err("transport")
    ELSE IF body.kind = "json" /\ JsonIsInfo(body.json)
    THEN Ok([hostname |-> body.json.hostname, version |-> body.json.version,
             testing |-> body.json.testing, device_id |-> body.json.device_id])
    ELSE Err("decode")

\* Response::text.
T_json == <<"{", "}">>
text(body) ==
    IF body.kind = "broken" THEN Err("transport")
    ELSE IF body.kind = "text" THEN Ok(body.text)
    ELSE Ok(T_json)

\* str::trim.
RECURSIVE trim_start(_)
trim_start(s) == IF Len(s) > 0 /\ Head(s) = " " THEN trim_start(Tail(s)) ELSE s
RECURSIVE trim_end(_)
trim_end(s) == IF Len(s) > 0 /\ s[Len(s)] = " " THEN trim_end(Take(s, Len(s) - 1)) ELSE s
trim(s) == trim_end(trim_start(s))

\* str::parse::<i64>: an optional sign and at least one digit, nothing else.  (A
\* value beyond i64 is an error too; it takes 19 digits.)
parse_i64(s) ==
    LET signed == Len(s) > 0 /\ s[1] \in {"+", "-"}
        digits == IF signed THEN Tail(s) ELSE s
    IN  IF Len(digits) = 0 \/ \E i \in DOMAIN digits : ~IsDigit(digits[i])
        THEN Err("InvalidDigit")
        ELSE Ok(IF signed /\ s[1] = "-" THEN 0 - DigitsValue(digits) ELSE DigitsValue(digits))

get_bucket_result(resp) ==
    IF resp.kind = "transport" THEN Returned(Err("transport"), FALSE)
    ELSE IF ~error_for_status(resp).ok THEN Returned(error_for_status(resp), FALSE)
    ELSE Returned(json_bucket(resp.body), TRUE)

get_buckets_result(resp) ==
    IF resp.kind = "transport" THEN Returned(Err("transport"), FALSE)
    ELSE Returned(json_bucket_map(resp.body), TRUE)

create_bucket_result(resp) ==
    IF resp.kind = "transport" THEN Returned(Err("transport"), FALSE)
    ELSE Returned(Ok(Unit), FALSE)

create_bucket_simple_result(resp) == create_bucket_result(resp)

\* A delete_bucket that checks the status as get_bucket does.
delete_bucket_result_checked(resp) ==
    IF resp.kind = "transport" THEN Returned(Err("transport"), FALSE)
    ELSE IF ~error_for_status(resp).ok THEN Returned(error_for_status(resp), FALSE)
    ELSE Returned(Ok(Unit), FALSE)

delete_bucket_result(resp) ==
    IF resp.kind = "transport" THEN Returned(Err("transport"), FALSE)
    ELSE Returned(Ok(Unit), FALSE)

get_events_result(resp) ==
    IF resp.kind = "transport" THEN Returned(Err("transport"), FALSE)
    ELSE Returned(json_events(resp.body), TRUE)

insert_event_result(resp) ==
    IF resp.kind = "transport" THEN Returned(Err("transport"), FALSE)
    ELSE Returned(Ok(Unit), FALSE)

insert_events_result(resp) ==
    IF resp.kind = "transport" THEN Returned(Err("transport"), FALSE)
    ELSE Returned(Ok(Unit), FALSE)

heartbeat_result(resp) ==
    IF resp.kind = "transport" THEN Returned(Err("transport"), FALSE)
    ELSE Returned(Ok(Unit), FALSE)

delete_event_result(resp) ==
    IF resp.kind = "transport" THEN Returned(Err("transport"), FALSE)
    ELSE Returned(Ok(Unit), FALSE)

get_event_count_result(resp) ==
    IF resp.kind = "transport" THEN Returned(Err("transport"), FALSE)
    ELSE IF ~error_for_status(resp).ok THEN Returned(error_for_status(resp), FALSE)
    ELSE LET res == text(resp.body)
         IN  IF ~res.ok THEN Returned(res, TRUE)
             ELSE IF parse_i64(trim(res.value)).ok
             THEN Returned(Ok(parse_i64(trim(res.value)).value), TRUE)
             ELSE Panicked(TRUE)

get_info_result(resp) ==
    IF resp.kind = "transport" THEN Returned(Err("transport"), FALSE)
    ELSE Returned(json_info(resp.body), TRUE)

\* What the call of operation op makes of response resp.
ResultOf(op, resp) ==
    CASE op = "get_bucket" -> get_bucket_result(resp)
      [] op = "get_buckets" -> get_buckets_result(resp)
      [] op = "create_bucket" -> create_bucket_result(resp)
      [] op = "create_bucket_simple" -> create_bucket_simple_result(resp)
      [] op = "delete_bucket" -> delete_bucket_result(resp)
      [] op = "get_events" -> get_events_result(resp)
      [] op = "insert_event" -> insert_event_result(resp)
      [] op = "insert_events" -> insert_events_result(resp)
      [] op = "heartbeat" -> heartbeat_result(resp)
      [] op = "delete_event" -> delete_event_result(resp)
      [] op = "get_event_count" -> get_event_count_result(resp)
      [] op = "get_info" -> get_info_result(resp)

(***************************************************************************)
(* The inputs of the model.                                                *)
(***************************************************************************)
HostChars == {"a", "B", " "}
Hosts == TextsUpTo(HostChars, MaxHostLen)
Ports == {0, 80, 5600, 65535}
Names == {"aw-watcher", "test"}

\* Hosts and ports of the clients the operations run on.
ClientHosts == {h \in Hosts : Len(h) > 0 /\ \A i \in DOMAIN h : IsLower(h[i])}
ClientPorts == {80, 5600}

BucketIds == {<<"t", "e", "s", "t">>, <<"w", "-", "1">>}
BucketTypes == {"test-type", "currentwindow"}

D1 == [year |-> 2020, month |-> 1, day |-> 1, hour |-> 0, minute |-> 0, second |-> 0,
       nano |-> 0]
D2 == [year |-> 2023, month |-> 12, day |-> 31, hour |-> 23, minute |-> 59, second |-> 59,
       nano |-> 500000000]
DateTimes == {D1, D2}
Limits == {0, 7, 100}
Pulsetimes == {5, 10, 600}
EventIds == {1, 42, -3}

E1 == [id |-> None, timestamp |-> D1, duration |-> 0, data |-> EmptyMap]
E2 == [id |-> Some(1), timestamp |-> D2, duration |-> 60, data |-> {<<"app", "editor">>}]
Events == {E1, E2}
EventLists == UNION {[1..k -> Events] : k \in 0..MaxEvents}

Buckets ==
    {[bid |-> None, id |-> i, client |-> "other-client", type |-> "afkstatus",
      hostname |-> "elsewhere", data |-> {<<"k", "v">>}, metadata |-> BucketMetadataDefault,
      events |-> e, created |-> None, last_updated |-> None] :
        i \in BucketIds, e \in {None, Some(<<>>)}}

Opt(S) == {None} \cup {Some(x) : x \in S}

Statuses == {200, 204, 304, 404, 500}
CountChars == {"7", "0", "-", "+", " ", "x"}
CountTexts == TextsUpTo(CountChars, MaxBodyLen)

ErrorDoc == [message |-> "not found"]
InfoDoc == [hostname |-> "srv", version |-> "v0.12", testing |-> FALSE, device_id |-> "d1"]
ABucket == CHOOSE b \in Buckets : b.events = None

\* The bodies a server may answer operation op with.
BodiesFor(op) ==
    CASE op = "get_event_count" -> {TextBody(s) : s \in CountTexts} \cup {BrokenBody}
      [] op = "get_bucket" ->
            {JsonBody(BucketToJson(ABucket)), JsonBody(ErrorDoc), TextBody(<<"x">>), BrokenBody}
      [] op = "get_buckets" ->
            {JsonBody({<<ABucket.id, BucketToJson(ABucket)>>}),
             JsonBody({<<<<"x">>, ErrorDoc>>}), BrokenBody}
      [] op = "get_events" ->
            {JsonBody(VecToJson(<<E1, E2>>)), JsonBody(<<ErrorDoc>>), BrokenBody}
      [] op = "get_info" -> {JsonBody(InfoDoc), JsonBody(ErrorDoc), BrokenBody}
      [] OTHER -> {TextBody(<<>>), JsonBody(ErrorDoc), BrokenBody}

\* What may come back for a request of operation op: no response at all (connection
\* failure, timeout) or a response with any status and body.
ResponsesFor(op) ==
    {TransportFailure} \cup {HttpResponse(st, b) : st \in Statuses, b \in BodiesFor(op)}

\* The few responses of the runs with several callers.
FewResponsesFor(op) ==
    {TransportFailure,
     HttpResponse(200, IF op = "get_event_count" THEN TextBody(<<"7">>)
                       ELSE JsonBody(BucketToJson(ABucket))),
     HttpResponse(404, JsonBody(ErrorDoc))}

(***************************************************************************)
(* The state.  ctor holds the arguments AwClient::new was called with and  *)
(* how the call ended; client is the AwClient; tasks[t] is the call caller *)
(* t is in, if any; store is what the echoing server holds.                *)
(***************************************************************************)
Tasks == 1..NumTasks
OneTask == {1}

Idle == [pc |-> "idle"]

InitNew ==
    /\ ctor \in [host : Hosts, port : Ports, name : Names, state : {"pending"}]
    /\ client = NoClient
    /\ tasks = [t \in Tasks |-> Idle]
    /\ store = {}

\* The state after a successful AwClient::new.
Init ==
    /\ ctor \in [host : ClientHosts, port : ClientPorts, name : {"aw-watcher"}, state : {"ok"}]
    /\ client = new(ctor.host, ctor.port, ctor.name).client
    /\ tasks = [t \in Tasks |-> Idle]
    /\ store = {}

\* The caller runs AwClient::new(host, port, name).
New ==
    /\ ctor.state = "pending"
    /\ LET r == new(ctor.host, ctor.port, ctor.name)
       IN  /\ ctor' = [ctor EXCEPT !.state = IF r.ok THEN "ok" ELSE "err"]
           /\ client' = IF r.ok THEN r.client ELSE NoClient
    /\ UNCHANGED <<tasks, store>>

\* The part of an operation up to its .send().await: the request is built and, if
\* it could be built, handed to the transport.
Send(t, op, args, request) ==
    /\ client.built
    /\ tasks[t].pc = "idle"
    /\ tasks' = [tasks EXCEPT ![t] =
          IF request.built
          THEN [pc |-> "sent", op |-> op, args |-> args, request |-> request, nreq |-> 1]
          ELSE [pc |-> "done", op |-> op, args |-> args, request |-> request, nreq |-> 0,
                resp |-> [kind |-> "none"], result |-> Err("builder"), decoded |-> FALSE]]
    /\ UNCHANGED <<ctor, client, store>>

get_bucket(t, bucketname) ==
    Send(t, "get_bucket", [bucketname |-> bucketname], get_bucket_request(client, bucketname))

get_buckets(t) ==
    Send(t, "get_buckets", [none |-> TRUE], get_buckets_request(client))

create_bucket(t, bucket) ==
    Send(t, "create_bucket", [bucket |-> bucket], create_bucket_request(client, bucket))

\* A create_bucket_simple that leaves the bucket type in the shared client.
create_bucket_simple_caching(t, bucketname, buckettype) ==
    /\ client.built
    /\ tasks[t].pc = "idle"
    /\ tasks' = [tasks EXCEPT ![t] =
          [pc |-> "sent", op |-> "create_bucket_simple",
           args |-> [bucketname |-> bucketname, buckettype |-> buckettype],
           request |-> create_bucket_simple_request(client, bucketname, buckettype),
           nreq |-> 1]]
    /\ client' = [client EXCEPT !.name = buckettype]
    /\ UNCHANGED <<ctor, store>>

create_bucket_simple(t, bucketname, buckettype) ==
    Send(t, "create_bucket_simple", [bucketname |-> bucketname, buckettype |-> buckettype],
         create_bucket_simple_request(client, bucketname, buckettype))

delete_bucket(t, bucketname) ==
    Send(t, "delete_bucket", [bucketname |-> bucketname],
         delete_bucket_request(client, bucketname))

get_events(t, bucketname, start, stop, limit) ==
    Send(t, "get_events",
         [bucketname |-> bucketname, start |-> start, stop |-> stop, limit |-> limit],
         get_events_request(client, bucketname, start, stop, limit))

insert_event(t, bucketname, event) ==
    Send(t, "insert_event", [bucketname |-> bucketname, event |-> event],
         insert_event_request(client, bucketname, event))

insert_events(t, bucketname, events) ==
    Send(t, "insert_events", [bucketname |-> bucketname, events |-> events],
         insert_events_request(client, bucketname, events))

heartbeat(t, bucketname, event, pulsetime) ==
    Send(t, "heartbeat", [bucketname |-> bucketname, event |-> event, pulsetime |-> pulsetime],
         heartbeat_request(client, bucketname, event, pulsetime))

delete_event(t, bucketname, event_id) ==
    Send(t, "delete_event", [bucketname |-> bucketname, event_id |-> event_id],
         delete_event_request(client, bucketname, event_id))

get_event_count(t, bucketname) ==
    Send(t, "get_event_count", [bucketname |-> bucketname],
         get_event_count_request(client, bucketname))

get_info(t) ==
    Send(t, "get_info", [none |-> TRUE], get_info_request(client))

\* The transport ends the .send().await of caller t with resp.
Respond(t, resp) ==
    /\ tasks[t].pc = "sent"
    /\ tasks' = [tasks EXCEPT ![t] =
          [pc |-> "served", op |-> tasks[t].op, args |-> tasks[t].args,
           request |-> tasks[t].request, nreq |-> tasks[t].nreq, resp |-> resp]]
    /\ UNCHANGED <<ctor, client, store>>

\* A server that stores what is POSTed to a URL, answers a GET of the URL with what
\* it stored there (404 when there is nothing) and forgets it on DELETE.  The
\* response to a GET carries, for the properties only, the call that stored the body.
EchoServe(t) ==
    /\ tasks[t].pc = "sent"
    /\ LET req == tasks[t].request
           held == {s \in store : s.url = req.url}
           by == [op |-> tasks[t].op, args |-> tasks[t].args]
           resp ==
               IF req.method = "GET" /\ held # {}
               THEN [kind |-> "http", status |-> 200,
                     body |-> (CHOOSE s \in held : TRUE).body,
                     by |-> (CHOOSE s \in held : TRUE).by]
               ELSE IF req.method = "GET"
               THEN HttpResponse(404, JsonBody(ErrorDoc))
               ELSE HttpResponse(200, TextBody(<<>>))
       IN  /\ store' = CASE req.method = "POST" ->
                              (store \ held) \cup {[url |-> req.url, body |-> req.body, by |-> by]}
                         [] req.method = "DELETE" -> store \ held
                         [] OTHER -> store
           /\ tasks' = [tasks EXCEPT ![t] =
                 [pc |-> "served", op |-> tasks[t].op, args |-> tasks[t].args,
                  request |-> tasks[t].request, nreq |-> tasks[t].nreq, resp |-> resp]]
    /\ UNCHANGED <<ctor, client>>

\* A completion that sends the request again when the transport failed.
Complete_retrying(t) ==
    /\ tasks[t].pc = "served"
    /\ tasks' = [tasks EXCEPT ![t] =
          IF tasks[t].resp.kind = "transport" /\ tasks[t].nreq < 2
          THEN [pc |-> "sent", op |-> tasks[t].op, args |-> tasks[t].args,
                request |-> tasks[t].request, nreq |-> tasks[t].nreq + 1]
          ELSE LET out == ResultOf(tasks[t].op, tasks[t].resp)
               IN  [pc |-> out.pc, op |-> tasks[t].op, args |-> tasks[t].args,
                    request |-> tasks[t].request, nreq |-> tasks[t].nreq,
                    resp |-> tasks[t].resp,
                    result |-> IF out.pc = "done" THEN out.result ELSE Err("none"),
                    decoded |-> out.decoded]]
    /\ UNCHANGED <<ctor, client, store>>

\* The part of an operation after its .send().await: caller t's operation makes its
\* result of the response and returns, or panics.
Complete(t) ==
    /\ tasks[t].pc = "served"
    /\ LET out == ResultOf(tasks[t].op, tasks[t].resp)
       IN  tasks' = [tasks EXCEPT ![t] =
              [pc |-> out.pc, op |-> tasks[t].op, args |-> tasks[t].args,
               request |-> tasks[t].request, nreq |-> tasks[t].nreq, resp |-> tasks[t].resp,
               result |-> IF out.pc = "done" THEN out.result ELSE Err("none"),
               decoded |-> out.decoded]]
    /\ UNCHANGED <<ctor, client, store>>

\* Caller t takes the returned result and is free to make its next call.
Return(t) ==
    /\ tasks[t].pc = "done"
    /\ tasks' = [tasks EXCEPT ![t] = Idle]
    /\ UNCHANGED <<ctor, client, store>>

\* The caller drops the future of its call at the await: the call is abandoned and
\* nothing of it is kept.
Abandon(t) ==
    /\ tasks[t].pc \in {"sent", "served"}
    /\ tasks' = [tasks EXCEPT ![t] = Idle]
    /\ UNCHANGED <<ctor, client, store>>

(***************************************************************************)
(* The specifications.                                                     *)
(***************************************************************************)
\* AwClient::new on every host, port and name.
NextNew == New

SpecNew == InitNew /\ [][NextNew]_vars

\* One caller running the operations one after the other against a server and a
\* network that may answer anything.
Next ==
    \E t \in OneTask :
        \/ \E b \in BucketIds : get_bucket(t, b)
        \/ get_buckets(t)
        \/ \E b \in Buckets : create_bucket(t, b)
        \/ \E b \in BucketIds, ty \in BucketTypes : create_bucket_simple(t, b, ty)
        \/ \E b \in BucketIds : delete_bucket(t, b)
        \/ \E b \in BucketIds, start \in Opt(DateTimes), stop \in Opt(DateTimes),
              limit \in Opt(Limits) : get_events(t, b, start, stop, limit)
        \/ \E b \in BucketIds, e \in Events : insert_event(t, b, e)
        \/ \E b \in BucketIds, es \in EventLists : insert_events(t, b, es)
        \/ \E b \in BucketIds, e \in Events, p \in Pulsetimes : heartbeat(t, b, e, p)
        \/ \E b \in BucketIds, id \in EventIds : delete_event(t, b, id)
        \/ \E b \in BucketIds : get_event_count(t, b)
        \/ get_info(t)
        \/ tasks[t].pc = "sent" /\ \E resp \in ResponsesFor(tasks[t].op) : Respond(t, resp)
        \/ Complete(t)
        \/ Return(t)

Spec == Init /\ [][Next]_vars

\* Several callers sharing one client, their calls interleaved.
InitShared ==
    /\ ctor = [host |-> <<"a">>, port |-> 5600, name |-> "aw-watcher", state |-> "ok"]
    /\ client = new(ctor.host, ctor.port, ctor.name).client
    /\ tasks = [t \in Tasks |-> Idle]
    /\ store = {}

NextShared ==
    \E t \in Tasks :
        \/ get_bucket(t, <<"t", "e", "s", "t">>)
        \/ \E ty \in BucketTypes : create_bucket_simple(t, <<"t", "e", "s", "t">>, ty)
        \/ heartbeat(t, <<"w", "-", "1">>, E2, 10)
        \/ get_event_count(t, <<"w", "-", "1">>)
        \/ tasks[t].pc = "sent" /\ \E resp \in FewResponsesFor(tasks[t].op) : Respond(t, resp)
        \/ Complete(t)
        \/ Return(t)
        \/ Abandon(t)

SpecShared == InitShared /\ [][NextShared]_vars

\* One caller creating, reading and deleting buckets on the echoing server.
NextEcho ==
    \E t \in OneTask :
        \/ \E b \in BucketIds : get_bucket(t, b)
        \/ \E b \in Buckets : create_bucket(t, b)
        \/ \E b \in BucketIds, ty \in BucketTypes : create_bucket_simple(t, b, ty)
        \/ \E b \in BucketIds : delete_bucket(t, b)
        \/ EchoServe(t)
        \/ Complete(t)
        \/ Return(t)

SpecEcho == Init /\ [][NextEcho]_vars

(***************************************************************************)
(* Reading a URL back: its query, the pairs of a form-urlencoded query and *)
(* an RFC 3339 timestamp.  Used to state the properties.                   *)
(***************************************************************************)
HexValue(c) == IndexOf(c, HexDigits) - 1
CharOfCode(n) == Punctuation[CHOOSE i \in DOMAIN PunctuationCode : PunctuationCode[i] = n]

RECURSIVE PercentDecode(_)
PercentDecode(s) ==
    IF Len(s) = 0 THEN <<>>
    ELSE IF Head(s) = "+" THEN <<" ">> \o PercentDecode(Tail(s))
    ELSE IF Head(s) = "%" /\ Len(s) >= 3
    THEN <<CharOfCode(16 * HexValue(s[2]) + HexValue(s[3]))>> \o PercentDecode(Drop(s, 3))
    ELSE <<Head(s)>> \o PercentDecode(Tail(s))

RECURSIVE Split(_, _)
Split(s, sep) ==
    IF FirstIn(s, {sep}) > Len(s) THEN <<s>>
    ELSE <<Take(s, FirstIn(s, {sep}) - 1)>> \o Split(Drop(s, FirstIn(s, {sep})), sep)

\* The text after the first "?" of a URL, if there is a "?".
QueryOf(url) ==
    IF FirstIn(url, {"?"}) > Len(url) THEN None ELSE Some(Drop(url, FirstIn(url, {"?"})))

\* The URL up to its query.
PathOf(url) == Take(url, FirstIn(url, {"?"}) - 1)

\* The raw pairs of a query: split at "&", each part holding exactly one "=".
RawPairs(q) == IF Len(q) = 0 THEN <<>> ELSE Split(q, "&")

PairKey(part) == PercentDecode(Take(part, FirstIn(part, {"="}) - 1))
PairValue(part) == PercentDecode(Drop(part, FirstIn(part, {"="})))
PairHasValue(part) == FirstIn(part, {"="}) < Len(part)

AllDigits(s) == Len(s) > 0 /\ \A i \in DOMAIN s : IsDigit(s[i])

RECURSIVE Pow10(_)
Pow10(k) == IF k = 0 THEN 1 ELSE 10 * Pow10(k - 1)

\* Text v is an RFC 3339 timestamp with a zero offset that denotes time d.
IsRfc3339UtcOf(v, d) ==
    /\ Len(v) >= 20
    /\ v[5] = "-" /\ v[8] = "-" /\ v[11] = "T" /\ v[14] = ":" /\ v[17] = ":"
    /\ AllDigits(SubSeq(v, 1, 4)) /\ DigitsValue(SubSeq(v, 1, 4)) = d.year
    /\ AllDigits(SubSeq(v, 6, 7)) /\ DigitsValue(SubSeq(v, 6, 7)) = d.month
    /\ AllDigits(SubSeq(v, 9, 10)) /\ DigitsValue(SubSeq(v, 9, 10)) = d.day
    /\ AllDigits(SubSeq(v, 12, 13)) /\ DigitsValue(SubSeq(v, 12, 13)) = d.hour
    /\ AllDigits(SubSeq(v, 15, 16)) /\ DigitsValue(SubSeq(v, 15, 16)) = d.minute
    /\ AllDigits(SubSeq(v, 18, 19)) /\ DigitsValue(SubSeq(v, 18, 19)) = d.second
    /\ LET rest == Drop(v, 19)
           frac == IF Len(rest) > 0 /\ rest[1] = "."
                   THEN SubSeq(rest, 2, FirstIn(rest, {"+", "-", "Z"}) - 1) ELSE <<>>
           offset == IF Len(rest) > 0 /\ rest[1] = "."
                     THEN Drop(rest, FirstIn(rest, {"+", "-", "Z"}) - 1) ELSE rest
       IN  /\ offset \in {T_utc, <<"Z">>}
           /\ IF Len(rest) > 0 /\ rest[1] = "."
              THEN AllDigits(frac) /\ Len(frac) <= 9
                   /\ DigitsValue(frac) * Pow10(9 - Len(frac)) = d.nano
              ELSE d.nano = 0

\* Text v is the base-10 form of n: digits only, no sign, no leading zero.
IsBase10Of(v, n) == AllDigits(v) /\ DigitsValue(v) = n /\ (Len(v) > 1 => v[1] # "0")

Active(t) == tasks[t].pc # "idle"
Ended(t) == tasks[t].pc \in {"done", "panicked"}
Sent(t) == Active(t) /\ tasks[t].request.built

\* The request operation op makes on client self with arguments a.
RequestOf(self, op, a) ==
    CASE op = "get_bucket" -> get_bucket_request(self, a.bucketname)
      [] op = "get_buckets" -> get_buckets_request(self)
      [] op = "create_bucket" -> create_bucket_request(self, a.bucket)
      [] op = "create_bucket_simple" ->
            create_bucket_simple_request(self, a.bucketname, a.buckettype)
      [] op = "delete_bucket" -> delete_bucket_request(self, a.bucketname)
      [] op = "get_events" -> get_events_request(self, a.bucketname, a.start, a.stop, a.limit)
      [] op = "insert_event" -> insert_event_request(self, a.bucketname, a.event)
      [] op = "insert_events" -> insert_events_request(self, a.bucketname, a.events)
      [] op = "heartbeat" -> heartbeat_request(self, a.bucketname, a.event, a.pulsetime)
      [] op = "delete_event" -> delete_event_request(self, a.bucketname, a.event_id)
      [] op = "get_event_count" -> get_event_count_request(self, a.bucketname)
      [] op = "get_info" -> get_info_request(self)

(***************************************************************************)
(* The properties.                                                         *)
(***************************************************************************)

\* C1: get_bucket and get_event_count turn every response whose status is not 2xx
\* into a status error carrying that status, without reading the body, and return
\* a Bucket or a count only for a 2xx response.
C1_NonSuccessIsStatusError ==
    \A t \in Tasks :
        (Ended(t) /\ tasks[t].op \in {"get_bucket", "get_event_count"}
         /\ tasks[t].resp.kind = "http")
        => /\ ~is_success(tasks[t].resp.status)
              => /\ tasks[t].pc = "done"
                 /\ tasks[t].result = ErrStatus(tasks[t].resp.status)
                 /\ ~tasks[t].decoded
           /\ (tasks[t].pc = "done" /\ tasks[t].result.ok) => is_success(tasks[t].resp.status)

\* C2: on a 2xx response get_event_count returns the integer of a well-formed body
\* and returns a malformed-count error, as a result, for any other body.
C2_CountOrMalformedCountError ==
    \A t \in Tasks :
        (Ended(t) /\ tasks[t].op = "get_event_count" /\ tasks[t].resp.kind = "http"
         /\ is_success(tasks[t].resp.status) /\ tasks[t].resp.body.kind = "text")
        => LET parsed == parse_i64(trim(tasks[t].resp.body.text))
           IN  /\ tasks[t].pc = "done"
               /\ IF parsed.ok THEN tasks[t].result = Ok(parsed.value)
                  ELSE ~tasks[t].result.ok /\ tasks[t].result.err = "malformed_count"

\* C3: the query of a get_events request holds exactly one pair per present
\* parameter, in the order start, end, limit, the times as RFC 3339 UTC timestamps
\* and the limit in base 10, and no key for an absent parameter; with all three
\* absent the URL has no query.
C3_QueryHoldsExactlyThePresentParameters ==
    \A t \in Tasks :
        (Sent(t) /\ tasks[t].op = "get_events")
        => LET a == tasks[t].args
               q == QueryOf(tasks[t].request.url)
               parts == IF q.some THEN RawPairs(q.v) ELSE <<>>
               want == (IF a.start.some THEN <<"start">> ELSE <<>>)
                       \o (IF a.stop.some THEN <<"end">> ELSE <<>>)
                       \o (IF a.limit.some THEN <<"limit">> ELSE <<>>)
           IN  /\ q.some <=> (a.start.some \/ a.stop.some \/ a.limit.some)
               /\ Len(parts) = Len(want)
               /\ \A i \in DOMAIN parts :
                     /\ PairHasValue(parts[i])
                     /\ want[i] = "start"
                        => /\ PairKey(parts[i]) = T_start
                           /\ IsRfc3339UtcOf(PairValue(parts[i]), a.start.v)
                     /\ want[i] = "end"
                        => /\ PairKey(parts[i]) = T_end
                           /\ IsRfc3339UtcOf(PairValue(parts[i]), a.stop.v)
                     /\ want[i] = "limit"
                        => /\ PairKey(parts[i]) = T_limit
                           /\ IsBase10Of(PairValue(parts[i]), a.limit.v)

\* C3 happens: a get_events request with start and limit present and end absent.
C3_Witness ==
    \E t \in Tasks :
        /\ tasks[t].pc = "sent" /\ tasks[t].op = "get_events"
        /\ tasks[t].args.start = Some(D2) /\ ~tasks[t].args.stop.some
        /\ tasks[t].args.limit = Some(100)
        /\ QueryOf(tasks[t].request.url).some

\* C4: insert_event(id, E) makes the request insert_events(id, [E]) makes: POST, the
\* bucket's events URL, a JSON array of the one element E; and ends as insert_events
\* ends on the same response.
C4_InsertEventIsInsertEventsOfOne ==
    \A t \in Tasks :
        (Sent(t) /\ tasks[t].op = "insert_event")
        => LET a == tasks[t].args
               req == tasks[t].request
           IN  /\ req = insert_events_request(client, a.bucketname, <<a.event>>)
               /\ req.method = "POST"
               /\ EndsWith(req.url, T_api_buckets \o a.bucketname \o T_events)
               /\ req.body.kind = "json"
               /\ req.body.json = <<EventToJson(a.event)>>
               /\ Ended(t) =>
                     LET other == insert_events_result(tasks[t].resp)
                     IN  /\ tasks[t].pc = other.pc
                         /\ tasks[t].result = other.result
                         /\ tasks[t].decoded = other.decoded

\* C4 happens: an insert_event call that returned success.
C4_Witness ==
    \E t \in Tasks :
        /\ tasks[t].pc = "done" /\ tasks[t].op = "insert_event"
        /\ tasks[t].args.event = E2 /\ tasks[t].result = Ok(Unit)

\* C5: every call sends exactly one request (create_bucket_simple and heartbeat one
\* POST), and a call whose request failed in the transport returns the transport
\* error with no further request.
C5_OneRequestPerCallNoRetry ==
    \A t \in Tasks :
        Sent(t)
        => /\ tasks[t].nreq = 1
           /\ tasks[t].op \in {"create_bucket_simple", "create_bucket", "heartbeat"}
              => tasks[t].request.method = "POST"
           /\ (tasks[t].pc \in {"served", "done", "panicked"}
               /\ tasks[t].resp.kind = "transport")
              => (tasks[t].pc = "done" => tasks[t].result = Err("transport"))
                 /\ tasks[t].pc # "panicked"

\* C5 happens: a heartbeat whose request failed in the transport has returned.
C5_Witness ==
    \E t \in Tasks :
        /\ tasks[t].pc = "done" /\ tasks[t].op = "heartbeat"
        /\ tasks[t].resp.kind = "transport" /\ tasks[t].result = Err("transport")
        /\ tasks[t].nreq = 1

\* The path the endpoint inventory gives operation op, after the base URL.
EndpointPath(op, a) ==
    CASE op \in {"get_bucket", "delete_bucket"} -> T_api_buckets \o a.bucketname
      [] op = "create_bucket" -> T_api_buckets \o a.bucket.id
      [] op = "create_bucket_simple" -> T_api_buckets \o a.bucketname
      [] op = "get_buckets" -> T_api_buckets
      [] op \in {"get_events", "insert_event", "insert_events"} ->
            T_api_buckets \o a.bucketname \o T_events
      [] op = "delete_event" ->
            T_api_buckets \o a.bucketname \o T_events_slash \o i64_to_string(a.event_id)
      [] op = "get_event_count" -> T_api_buckets \o a.bucketname \o T_events_count
      [] op = "heartbeat" ->
            T_api_buckets \o a.bucketname \o <<"/", "h", "e", "a", "r", "t", "b", "e", "a", "t">>
      [] op = "get_info" -> T_api_info

\* C6: the URL of every bucket and event request is http://{host}:{port} followed
\* by /api/0/buckets/{id} and the operation's sub-path, one slash between segments.
C6_UrlIsBaseThenEndpointPath ==
    \A t \in Tasks :
        (Sent(t) /\ tasks[t].op \notin {"get_buckets", "get_info"})
        => PathOf(tasks[t].request.url)
              = T_scheme \o ctor.host \o <<":">> \o to_string(ctor.port)
                \o EndpointPath(tasks[t].op, tasks[t].args)

C8_SimpleBucketReadBack ==
    \A t \in Tasks :
        (tasks[t].pc = "done" /\ tasks[t].op = "get_bucket"
         /\ tasks[t].resp.kind = "http" /\ "by" \in DOMAIN tasks[t].resp
         /\ tasks[t].resp.by.op = "create_bucket_simple")
        => /\ tasks[t].resp.by.args.bucketname = tasks[t].args.bucketname
           /\ tasks[t].result
                 = Ok([bid |-> None,
                       id |-> tasks[t].args.bucketname,
                       type |-> tasks[t].resp.by.args.buckettype,
                       client |-> ctor.name,
                       hostname |-> get_hostname,
                       data |-> EmptyMap,
                       metadata |-> BucketMetadataDefault,
                       events |-> None,
                       created |-> None,
                       last_updated |-> None])

\* C8 happens: a bucket made by create_bucket_simple has been read back while the
\* server holds another bucket.
C8_Witness ==
    \E t \in Tasks :
        /\ tasks[t].pc = "done" /\ tasks[t].op = "get_bucket"
        /\ tasks[t].resp.kind = "http" /\ "by" \in DOMAIN tasks[t].resp
        /\ tasks[t].resp.by.op = "create_bucket_simple"
        /\ tasks[t].result.ok
        /\ Cardinality(store) = 2

\* C9: the client stays as new built it, and every call of every caller, however
\* the calls interleave, makes the request and ends the way the operation does on
\* that client alone.
C9_SharedClientIsNeverChanged ==
    /\ client = new(ctor.host, ctor.port, ctor.name).client
    /\ \A t \in Tasks :
          Active(t)
          => /\ tasks[t].request
                   = RequestOf(new(ctor.host, ctor.port, ctor.name).client,
                               tasks[t].op, tasks[t].args)
             /\ Ended(t)
                => LET alone == ResultOf(tasks[t].op, tasks[t].resp)
                   IN  /\ tasks[t].pc = alone.pc
                       /\ tasks[t].decoded = alone.decoded
                       /\ tasks[t].pc = "done" => tasks[t].result = alone.result

\* C9 happens: one caller has its result while another's request is in flight and
\* a third call was made after an earlier one ended.
C9_Witness ==
    \E t, u \in Tasks :
        /\ t # u
        /\ tasks[t].pc = "done" /\ tasks[t].op = "create_bucket_simple"
        /\ tasks[u].pc = "sent" /\ tasks[u].op = "create_bucket_simple"
        /\ tasks[u].args.buckettype # tasks[t].args.buckettype

\* C10: a mutating operation returns success exactly when its request got a
\* response, whatever the status, never reads the body, and returns an error only
\* for a transport failure.
MutatingOps ==
    {"create_bucket", "create_bucket_simple", "delete_bucket", "insert_event",
     "insert_events", "heartbeat", "delete_event"}

C10_MutatingSucceedsIffTransportDid ==
    \A t \in Tasks :
        (Sent(t) /\ Ended(t) /\ tasks[t].op \in MutatingOps)
        => /\ tasks[t].pc = "done"
           /\ tasks[t].result.ok <=> tasks[t].resp.kind = "http"
           /\ tasks[t].resp.kind = "http" => tasks[t].result = Ok(Unit)
           /\ tasks[t].resp.kind = "transport" => tasks[t].result = Err("transport")
           /\ ~tasks[t].decoded

\* C10 happens: delete_bucket has returned success on a 500 whose body cannot be read.
C10_Witness ==
    \E t \in Tasks :
        /\ tasks[t].pc = "done" /\ tasks[t].op = "delete_bucket"
        /\ tasks[t].resp.kind = "http" /\ tasks[t].resp.status = 500
        /\ tasks[t].resp.body = BrokenBody
        /\ tasks[t].result = Ok(Unit)

====
